---- MODULE Spec2Model ----
(***************************************************************************)
(* het_hap_phaser.py: trio phasing of biallelic SNVs around an index       *)
(* variant.  The module models                                             *)
(*   - parse_haplotypes (the per-variant engine) as the operator           *)
(*     parse_haplotypes, built from the per-sample operator SampleCall;    *)
(*   - output_row / search_gnomad (frequency annotation and filter);       *)
(*   - vcf_to_hap and parse_region as a state machine: Bootstrap,          *)
(*     ParseRegionStep (one loop iteration), WriteIndexRow, Finish.        *)
(* Specifications:                                                         *)
(*   Spec        a run of vcf_to_hap over every configuration;             *)
(*   EngineSpec  one index call of parse_haplotypes, or one iteration of   *)
(*               parse_region's loop, on every input of Variants from      *)
(*               every state of the orientation flags.                     *)
(***************************************************************************)
EXTENDS Integers, Sequences, FiniteSets, TLC

VARIABLES
    pc,                    \* position in vcf_to_hap
    cfg,                   \* the arguments of vcf_to_hap (never change)
    var,                   \* the variant last taken from the record source
    index_var,             \* vcf_to_hap's index_var
    index_row,             \* vcf_to_hap's index_row
    row,                   \* the caller's row after the last engine call
    eng,                   \* locals of the last parse_haplotypes call
    reverse_allele_order,  \* defaultdict(bool): sample -> reverse flag
    out,                   \* lines written to out_fh, in order
    n,                     \* parse_region's n
    w,                     \* parse_region's w
    last,                  \* what the last loop iteration did with its variant
    err                    \* the exception that ended the run, "" if none

vars == <<pc, cfg, var, index_var, index_row, row, eng, reverse_allele_order,
          out, n, w, last, err>>

----------------------------------------------------------------------------
(* Bounds of the model *)

\* number of variants the record source yields in one flank at most
MaxFlankVars == 2
\* position of the index variant
IndexPos == 2
\* the flanks argument
Flanks == 1

----------------------------------------------------------------------------
(* Values *)

\* Python's None where the code keeps an int or None (genotype slots, pat,
\* mat, p_allele, max_no_calls, min_other_allele_freq)
None == -1

\* a row that is None
NoneRow == <<>>

\* f is None / m is None in the pedigree
NoParent == "None"

\* vreader.header.samples
VcfSamples == <<"child", "sib", "father", "mother", "other">>

Persons == {"child", "sib", "father", "mother", "other"}

\* ped_file.individuals: "other" is not in the pedigree; "sib" has no
\* mother recorded
Individuals ==
    [child  |-> [fid |-> "F1", father |-> "father", mother |-> "mother"],
     sib    |-> [fid |-> "F1", father |-> "father", mother |-> NoParent],
     father |-> [fid |-> "F1", father |-> NoParent, mother |-> NoParent],
     mother |-> [fid |-> "F1", father |-> NoParent, mother |-> NoParent]]

\* genotype calls of a biallelic site: 0/0, 0/1, 1/1 and ./.
Genotypes == {<<0, 0>>, <<0, 1>>, <<1, 1>>, <<None, None>>}

\* (sample, allele) pairs for which gt_filter.gt_is_ok answers False
BadSets ==
    {{}, {<<"child", 0>>}, {<<"child", 1>>}, {<<"sib", 0>>},
     {<<"father", 0>>}, {<<"father", 1>>}, {<<"mother", 1>>},
     {<<"other", 1>>}}

\* var.ALLELES of a biallelic SNV, of an indel and of a multiallelic site
SnvAlleles == <<"A", "G">>
IndelAlleles == <<"A", "AT">>
MultiAlleles == <<"A", "G", "T">>

\* frequency texts a gnomAD record can carry in INFO/AF
AfTexts == {"0.005", "0.500", "0.995"}

\* search_gnomad's answer for a variant the database does not hold
Dots == <<".", ".", ".">>

\* what search_gnomad can return for one reader
GnomadHits == {Dots} \cup {<<a, a, "NFE">> : a \in AfTexts}

\* a VcfRecord: position, alleles, genotype per sample, the admissibility
\* filter's verdicts, whether the exclusion BED covers it and what each of
\* the two frequency databases answers for it
Variant(pos, alleles, gt, bad, bed, hits) ==
    [CHROM |-> "1", POS |-> pos, ID |-> "rs", ALLELES |-> alleles,
     GT |-> gt, bad |-> bad, in_bed |-> bed, gnomad |-> hits]

REF(v) == v.ALLELES[1]
ALT(v) == v.ALLELES[2]

----------------------------------------------------------------------------
(* Helpers for Python built-ins *)

\* x in seq
In(x, seq) == \E i \in 1..Len(seq) : seq[i] = x

\* max(gt) of a two-slot genotype
MaxGT(g) == IF g[1] >= g[2] THEN g[1] ELSE g[2]

\* sorted(gt)
SortedGT(g) == IF g[1] <= g[2] THEN g ELSE <<g[2], g[1]>>

\* len(set(gt)) == 1
OneValued(g) == g[1] = g[2]

\* str.join("/", (var.ALLELES[x] for x in sgt))
JoinSlash(v, g) == v.ALLELES[g[1] + 1] \o "/" \o v.ALLELES[g[2] + 1]

\* str.join("|", (var.ALLELES[x] for x in sgt))
JoinPipe(v, g) == v.ALLELES[g[1] + 1] \o "|" \o v.ALLELES[g[2] + 1]

\* "{}|{}".format(var.ALLELES[a], var.ALLELES[b])
FormatPipe(v, a, b) == v.ALLELES[a + 1] \o "|" \o v.ALLELES[b + 1]

\* row.extend(al) for every al of a list of tuples
RECURSIVE Flatten(_)
Flatten(ss) == IF ss = <<>> THEN <<>> ELSE Head(ss) \o Flatten(Tail(ss))

\* reverse_allele_order[s] of a defaultdict(bool): a missing key reads False
FlagOf(rev, s) == IF s \in DOMAIN rev THEN rev[s] ELSE FALSE

\* the dict d after d[s] = b (the key is added when missing)
SetKey(d, s, b) == [k \in DOMAIN d \cup {s} |-> IF k = s THEN b ELSE d[k]]

EmptyDict == [k \in {} |-> FALSE]

----------------------------------------------------------------------------
(* parse_haplotypes *)

gt_is_ok(v, s, allele) == <<s, allele>> \notin v.bad

\* fgt / mgt: the parent's genotype, () when the sample has no such parent,
\* the genotype holds None or its highest allele fails the filter
ParentGT(v, p) ==
    IF p = NoParent THEN <<>>
    ELSE IF In(None, v.GT[p]) THEN <<>>
    ELSE IF ~gt_is_ok(v, p, MaxGT(v.GT[p])) THEN <<>>
    ELSE v.GT[p]

\* Transmitted with the elif hanging on the inner test, so that a usable
\* parent always transmits something: C12 fails on it
TransmittedOrRef(own, other) ==
    IF In(1, own) /\ (~In(0, own) \/ (~In(1, other) /\ other # <<>>)) THEN 1
    ELSE IF own # <<>> THEN 0 ELSE None

\* pat (with own = fgt, other = mgt) and mat (own = mgt, other = fgt)
\* as first assigned
Transmitted(own, other) ==
    IF In(1, own)
    THEN IF ~In(0, own) \/ (~In(1, other) /\ other # <<>>) THEN 1 ELSE None
    ELSE IF own # <<>> THEN 0 ELSE None

\* int(x == 0)
Complement(x) == IF x = 0 THEN 1 ELSE 0

\* pat after the inference of the missing side
PatOf(fgt, mgt) ==
    LET pat == Transmitted(fgt, mgt)
        mat == Transmitted(mgt, fgt)
    IN  IF pat = None /\ mat # None THEN Complement(mat) ELSE pat

\* mat after the inference of the missing side
MatOf(fgt, mgt) ==
    LET pat == Transmitted(fgt, mgt)
        mat == Transmitted(mgt, fgt)
    IN  IF mat = None /\ pat # None THEN Complement(pat) ELSE mat

\* IsDeNovo with the comparison lost: C2 fails on it
NeverDeNovo(pat, mat) == FALSE

\* mat == pat (line 229): an apparent de novo variant
IsDeNovo(pat, mat) == mat = pat

\* IndexFlag with pat and mat exchanged in the test: C14 fails on it
IndexFlagSwapped(rev, s, pat, mat, index_call) ==
    IF index_call /\ pat = 1 /\ mat = 0 THEN SetKey(rev, s, TRUE) ELSE rev

\* IndexFlag without the "if index_var" guard: C1 fails on it
IndexFlagAlways(rev, s, pat, mat, index_call) ==
    IF mat = 1 /\ pat = 0 THEN SetKey(rev, s, TRUE) ELSE rev

\* the flag the index call stores for a phased sample
IndexFlag(rev, s, pat, mat, index_call) ==
    IF index_call /\ mat = 1 /\ pat = 0 THEN SetKey(rev, s, TRUE) ELSE rev

\* the reading of reverse_allele_order[s] for a phased sample: the key is
\* added (False) when missing
ReadFlag(rev, s) == SetKey(rev, s, FlagOf(rev, s))

\* the outcome of one sample: its text in calls, its tuple in alleles, its
\* entry of allele_in_phase (None: no entry), whether it set
\* sample_with_alt, whether it was added to sample_no_calls, whether a
\* warning was logged, pat and mat, and the flags after it
Outcome(kind, call, al, phase, alt, warn, pat, mat, rev) ==
    [kind |-> kind, call |-> call, alleles |-> al, in_phase |-> phase,
     with_alt |-> alt, warned |-> warn, pat |-> pat, mat |-> mat, rev |-> rev]

NoCallOutcome(rev) ==
    Outcome("NoCall", "NoCall", <<"NoCall", "NoCall">>, None, FALSE, FALSE,
            None, None, rev)

UnphasedOutcome(v, sgt, kind, warn, pat, mat, rev) ==
    Outcome(kind, JoinSlash(v, sgt), <<JoinSlash(v, sgt), JoinSlash(v, sgt)>>,
            None, In(1, sgt), warn, pat, mat, rev)

PhasedOutcome(v, s, sgt, pat, mat, rev, index_call) ==
    LET rev1 == IndexFlag(rev, s, pat, mat, index_call)
        rev2 == ReadFlag(rev1, s)
    IN  IF FlagOf(rev1, s)
        THEN Outcome("phased", FormatPipe(v, mat, pat),
                     <<v.ALLELES[mat + 1], v.ALLELES[pat + 1]>>, mat,
                     In(1, sgt), FALSE, pat, mat, rev2)
        ELSE Outcome("phased", FormatPipe(v, pat, mat),
                     <<v.ALLELES[pat + 1], v.ALLELES[mat + 1]>>, pat,
                     In(1, sgt), FALSE, pat, mat, rev2)

\* one iteration of "for s in samples"
SampleCall(v, s, rev, index_call) ==
    LET sgt == v.GT[s]
        fgt == ParentGT(v, Individuals[s].father)
        mgt == ParentGT(v, Individuals[s].mother)
        pat == PatOf(fgt, mgt)
        mat == MatOf(fgt, mgt)
    IN  IF ~gt_is_ok(v, s, 0) \/ ~gt_is_ok(v, s, 1) THEN NoCallOutcome(rev)
        ELSE IF OneValued(sgt) /\ In(None, sgt) THEN NoCallOutcome(rev)
        ELSE IF OneValued(sgt)
        THEN Outcome("hom", JoinPipe(v, sgt),
                     <<v.ALLELES[sgt[1] + 1], v.ALLELES[sgt[2] + 1]>>,
                     sgt[1], In(1, sgt), FALSE, None, None, rev)
        ELSE IF fgt = <<>> /\ mgt = <<>>
        THEN UnphasedOutcome(v, sgt, "unphased", FALSE, None, None, rev)
        ELSE IF mat = None /\ pat = None
        THEN UnphasedOutcome(v, sgt, "unphased", FALSE, None, None, rev)
        ELSE IF IsDeNovo(pat, mat)
        THEN UnphasedOutcome(v, sgt, "denovo", TRUE, pat, mat, rev)
        ELSE PhasedOutcome(v, s, sgt, pat, mat, rev, index_call)

\* the outcomes of samples[1..i], each sample seeing the flags the earlier
\* ones left
RECURSIVE SampleLoop(_, _, _, _, _)
SampleLoop(v, samples, rev, index_call, i) ==
    IF i = 0 THEN <<>>
    ELSE LET before == SampleLoop(v, samples, rev, index_call, i - 1)
             rev0 == IF i = 1 THEN rev ELSE before[i - 1].rev
         IN  Append(before, SampleCall(v, samples[i], rev0, index_call))

\* counts[key] after "for u in unrelateds"
BackgroundCount(v, unrelateds, key) ==
    Cardinality({i \in 1..Len(unrelateds) :
        /\ ~In(None, v.GT[unrelateds[i]])
        /\ gt_is_ok(v, unrelateds[i], MaxGT(v.GT[unrelateds[i]]))
        /\ SortedGT(v.GT[unrelateds[i]]) = key})

\* p_allele
DominantAllele(ref_phase, alt_phase) ==
    IF ref_phase + alt_phase = 0 THEN None
    ELSE IF ref_phase > alt_phase THEN 0
    ELSE IF alt_phase > ref_phase THEN 1
    ELSE None

\* n_in_phase
NInPhase(ref_phase, alt_phase) ==
    IF ref_phase + alt_phase = 0 THEN 0
    ELSE IF ref_phase >= alt_phase THEN ref_phase ELSE alt_phase

\* AddsCompat without "or s in sample_no_calls": C6 fails on it
AddsCompatCalled(v, o, s, p_allele) ==
    /\ p_allele # None
    /\ In(p_allele, v.GT[s])

\* whether a sample outside allele_in_phase adds 1 to n_compat
AddsCompat(v, o, s, p_allele) ==
    /\ p_allele # None
    /\ In(p_allele, v.GT[s]) \/ o.kind = "NoCall"

\* the HAP field
HapField(v, n_in_phase, p_allele) ==
    IF n_in_phase # 0 /\ p_allele # None THEN v.ALLELES[p_allele + 1] ELSE "?"

\* the sample columns of the row
SampleColumns(os, output_alleles) ==
    IF output_alleles
    THEN Flatten([i \in 1..Len(os) |-> os[i].alleles])
    ELSE [i \in 1..Len(os) |-> os[i].call]

\* the row parse_haplotypes builds once no early return was taken
BuildRow(v, samples, unrelateds, os, output_alleles) ==
    LET phased == {i \in 1..Len(os) : os[i].in_phase # None}
        ref_phase == Cardinality({i \in phased : os[i].in_phase = 0})
        alt_phase == Cardinality(phased) - ref_phase
        p_allele == DominantAllele(ref_phase, alt_phase)
        n_in_phase == NInPhase(ref_phase, alt_phase)
        n_compat == n_in_phase + Cardinality({i \in 1..Len(os) \ phased :
                        AddsCompat(v, os[i], samples[i], p_allele)})
        an == 2 * (BackgroundCount(v, unrelateds, <<0, 0>>)
                   + BackgroundCount(v, unrelateds, <<0, 1>>)
                   + BackgroundCount(v, unrelateds, <<1, 1>>))
        ac == BackgroundCount(v, unrelateds, <<0, 1>>)
              + 2 * BackgroundCount(v, unrelateds, <<1, 1>>)
        no_calls == Cardinality({i \in 1..Len(os) : os[i].kind = "NoCall"})
    IN  <<v.CHROM, v.POS, v.ID, REF(v), ALT(v),
          HapField(v, n_in_phase, p_allele), n_in_phase, n_compat>>
        \o SampleColumns(os, output_alleles)
        \o <<an, [ac |-> ac, an |-> an]>>
        \o <<phased # {}, Cardinality(phased) = Len(samples), no_calls>>

\* what a call leaves behind: the returned row (NoneRow for None), the flags,
\* the outcome of every sample, p_allele and the samples logger.warning was
\* called for, in order
EngineResult(index_call, ret, rev, os, samples) ==
    [called |-> TRUE, index_var |-> index_call, ret |-> ret, rev |-> rev,
     outcome |-> [i \in 1..Len(os) |-> [f \in DOMAIN os[i] \ {"rev"} |-> os[i][f]]],
     p_allele |->
        LET phased == {i \in 1..Len(os) : os[i].in_phase # None}
            ref_phase == Cardinality({i \in phased : os[i].in_phase = 0})
        IN  IF ret = NoneRow THEN None
            ELSE DominantAllele(ref_phase, Cardinality(phased) - ref_phase),
     warnings |-> Flatten([i \in 1..Len(os) |->
                    IF os[i].warned THEN <<samples[i]>> ELSE <<>>])]

\* eng before any call
NoEngineCall ==
    [called |-> FALSE, index_var |-> FALSE, ret |-> NoneRow, rev |-> EmptyDict,
     outcome |-> <<>>, p_allele |-> None, warnings |-> <<>>]

\* IsIndel with the length test lost: C9 fails on it
NeverIndel(v) == FALSE

\* len(var.ALLELES[0]) != len(var.ALLELES[1])
IsIndel(v) == Len(v.ALLELES[1]) # Len(v.ALLELES[2])

\* SampleWithAlt with the flag stuck at True: C3 fails on it
AlwaysWithAlt(os) == TRUE

\* sample_with_alt after the loop over the samples
SampleWithAlt(os) == \E i \in 1..Len(os) : os[i].with_alt

parse_haplotypes(v, samples, unrelateds, rev, output_alleles, index_call) ==
    IF Len(v.ALLELES) # 2
    THEN EngineResult(index_call, NoneRow, rev, <<>>, samples)
    ELSE IF IsIndel(v)
    THEN EngineResult(index_call, NoneRow, rev, <<>>, samples)
    ELSE LET os == SampleLoop(v, samples, rev, index_call, Len(samples))
             rev1 == IF os = <<>> THEN rev ELSE os[Len(os)].rev
         IN  IF ~SampleWithAlt(os)
             THEN EngineResult(index_call, NoneRow, rev1, os, samples)
             ELSE EngineResult(index_call,
                      BuildRow(v, samples, unrelateds, os, output_alleles),
                      rev1, os, samples)

----------------------------------------------------------------------------
(* output_row and search_gnomad *)

\* float(af), in thousandths
Float(af) ==
    CASE af = "0.005" -> 5
      [] af = "0.500" -> 500
      [] af = "0.995" -> 995

\* max_af < af on the frequency texts: texts of one width and format order
\* as their values do
TextLess(a, b) == Float(a) < Float(b)

\* (af, p_af, popmax) of the first exact hit in the reader, Dots without one
search_gnomad(v, reader) == v.gnomad[reader]

\* other_af for one reader's af, in thousandths (reached only when the row
\* is not skipped for absence)
OtherAf(r, v, af) ==
    IF af = "." THEN 1000
    ELSE IF r[6] = REF(v) THEN Float(af)
    ELSE 1000 - Float(af)

\* whether the body of "for reader in gnomad_readers" returns 0 for this af
SkipsRow(r, v, af, min_af, samples) ==
    /\ min_af # None
    /\ r[8] = Len(samples)
    /\ IF af = "." /\ r[6] = REF(v) THEN TRUE
       ELSE OtherAf(r, v, af) < min_af

\* the loop over gnomad_readers[1..i]: whether it returned 0, and
\* (max_af, max_popmax, max_pop) so far
RECURSIVE ReaderLoop(_, _, _, _, _, _)
ReaderLoop(r, v, readers, min_af, samples, i) ==
    IF i = 0 THEN [skipped |-> FALSE, max |-> Dots]
    ELSE LET prev == ReaderLoop(r, v, readers, min_af, samples, i - 1)
             hit == search_gnomad(v, readers[i])
         IN  IF prev.skipped THEN prev
             ELSE IF SkipsRow(r, v, hit[1], min_af, samples)
             THEN [skipped |-> TRUE, max |-> prev.max]
             ELSE IF hit[1] # "." /\ (prev.max[1] = "."
                                      \/ TextLess(prev.max[1], hit[1]))
             THEN [skipped |-> FALSE, max |-> hit]
             ELSE prev

\* a written line: its kind, the number of tab-separated fields, and for a
\* data row its POS and ID fields, the flank being walked and parse_region's
\* n when it was written
Line(kind, nfields, pos, id, flank, k) ==
    [kind |-> kind, nfields |-> nfields, POS |-> pos, ID |-> id,
     flank |-> flank, n |-> k]

\* output.write(str.join("\t", (str(x) for x in row)) + "\n")
RowLine(r, flank, k) == Line("row", Len(r), r[2], r[3], flank, k)

\* output_row: the value returned, the row as the call leaves it and the
\* lines it wrote
output_row(r, v, readers, min_af, samples, flank, k) ==
    LET loop == ReaderLoop(r, v, readers, min_af, samples, Len(readers))
        r1 == IF readers # <<>> THEN r \o loop.max ELSE r
    IN  IF readers # <<>> /\ loop.skipped
        THEN [ret |-> 0, row |-> r, lines |-> <<>>]
        ELSE [ret |-> 1, row |-> r1, lines |-> <<RowLine(r1, flank, k)>>]

----------------------------------------------------------------------------
(* vcf_to_hap: arguments *)

\* the variant argument: whether it matches v_re, and its four groups
VariantSpecs ==
    {[matches |-> TRUE, chrom |-> "1", pos |-> IndexPos, ref |-> "A", alt |-> "G"],
     [matches |-> TRUE, chrom |-> "1", pos |-> IndexPos, ref |-> "A", alt |-> "AT"],
     [matches |-> TRUE, chrom |-> "X", pos |-> IndexPos, ref |-> "A", alt |-> "G"],
     [matches |-> FALSE, chrom |-> "", pos |-> 0, ref |-> "", alt |-> ""]}

Args(samples, variant, flanks, alleles, inf, all, maxnc, readers, minaf, bed) ==
    [samples |-> samples, variant |-> variant, flanks |-> flanks,
     output_alleles |-> alleles, informative_only |-> inf,
     phased_in_all |-> all, max_no_calls |-> maxnc,
     gnomad_readers |-> readers, min_other_allele_freq |-> minaf,
     exclude_regions |-> bed]

\* min_other_allele_freq when given: 0.01, in thousandths
MinAfs == {10}

----------------------------------------------------------------------------
(* The record source *)

GT(c, s, f, m, o) ==
    [child |-> c, sib |-> s, father |-> f, mother |-> m, other |-> o]

\* every genotype assignment of the five samples
AllGTs ==
    {GT(c, s, f, m, o) : c \in Genotypes, s \in Genotypes, f \in Genotypes,
                          m \in Genotypes,
                          o \in {<<0, 1>>, <<1, 1>>, <<None, None>>}}

\* the inputs of EngineSpec: every SNV over AllGTs and BadSets, an indel and
\* a multiallelic site
Variants ==
    {Variant(IndexPos, SnvAlleles, g, b, FALSE, <<Dots, Dots>>) :
        g \in AllGTs, b \in BadSets}
    \cup {Variant(IndexPos, a, GT(<<0, 1>>, <<0, 1>>, <<1, 1>>, <<0, 0>>, <<0, 1>>),
                  {}, FALSE, <<Dots, Dots>>) : a \in {IndelAlleles, MultiAlleles}}

\* the genotype assignments of the records of the flanks of a walked VCF
\*            child      sib        father     mother    other
WalkGTs ==
    {GT(<<0, 1>>, <<0, 1>>, <<1, 1>>, <<0, 0>>, <<0, 1>>),
     GT(<<0, 1>>, <<0, 1>>, <<0, 0>>, <<1, 1>>, <<0, 1>>),
     GT(<<0, 1>>, <<0, 1>>, <<0, 1>>, <<0, 0>>, <<0, 1>>),
     GT(<<0, 1>>, <<None, None>>, <<0, 0>>, <<0, 0>>, <<0, 1>>),
     GT(<<0, 0>>, <<0, 1>>, <<0, 0>>, <<1, 1>>, <<0, 1>>),
     GT(<<1, 1>>, <<None, None>>, <<1, 1>>, <<1, 1>>, <<0, 1>>),
     GT(<<0, 0>>, <<None, None>>, <<0, 1>>, <<0, 0>>, <<0, 1>>),
     GT(<<None, None>>, <<0, 1>>, <<1, 1>>, <<0, 0>>, <<0, 1>>)}

\* the genotype assignments of the flank records of a walked VCF that is
\* annotated from frequency databases
\*            child      sib        father     mother    other
FrequencyGTs ==
    {GT(<<0, 1>>, <<0, 1>>, <<1, 1>>, <<0, 0>>, <<0, 1>>),
     GT(<<0, 1>>, <<0, 1>>, <<0, 0>>, <<1, 1>>, <<0, 1>>),
     GT(<<0, 1>>, <<None, None>>, <<0, 0>>, <<0, 0>>, <<0, 1>>)}

\* the genotype assignments of the records at the index position
\*            child      sib        father     mother    other
IndexGTs ==
    {GT(<<0, 1>>, <<0, 1>>, <<0, 0>>, <<1, 1>>, <<0, 1>>),
     GT(<<0, 1>>, <<0, 1>>, <<0, 1>>, <<0, 0>>, <<0, 1>>),
     GT(<<0, 0>>, <<None, None>>, <<0, 1>>, <<0, 0>>, <<0, 1>>)}

\* the answers of the frequency databases the run reads (a database that is
\* not configured is never asked; without min_other_allele_freq the answers
\* are only copied into the row)
WalkHits(c) ==
    IF c.gnomad_readers = <<>> THEN {<<Dots, Dots>>}
    ELSE IF c.min_other_allele_freq = None
    THEN {<<Dots, Dots>>,
          <<<<"0.005", "0.005", "NFE">>, <<"0.500", "0.500", "NFE">>>>}
    ELSE IF Len(c.gnomad_readers) = 1
    THEN {<<h, Dots>> : h \in GnomadHits \ {<<"0.500", "0.500", "NFE">>}}
    ELSE {<<Dots, Dots>>, <<Dots, <<"0.500", "0.500", "NFE">>>>,
          <<<<"0.005", "0.005", "NFE">>, <<"0.500", "0.500", "NFE">>>>,
          <<<<"0.995", "0.995", "NFE">>, <<"0.995", "0.995", "NFE">>>>}

\* the answers of the frequency databases for the index variant
IndexHits(c) ==
    IF c.gnomad_readers = <<>> THEN {<<Dots, Dots>>}
    ELSE {<<Dots, Dots>>, <<<<"0.005", "0.005", "NFE">>, Dots>>}

\* a record that is not a biallelic SNV: the engine returns before it reads
\* the genotypes
NonSnv(pos, alleles) ==
    Variant(pos, alleles, GT(<<0, 1>>, <<0, 1>>, <<1, 1>>, <<0, 0>>, <<0, 1>>),
            {}, FALSE, <<Dots, Dots>>)

\* the records at position pos of the VCF of a run with arguments c; a
\* record the exclusion BED covers is never parsed
RecordsAt(c, pos) ==
    IF pos = c.variant.pos
    THEN {Variant(pos, SnvAlleles, g, {}, FALSE, h) :
            g \in IndexGTs, h \in IndexHits(c)}
         \cup {NonSnv(pos, IndelAlleles), NonSnv(pos, MultiAlleles)}
    ELSE {Variant(pos, SnvAlleles, g, {}, FALSE, h) :
            g \in (IF c.gnomad_readers = <<>> THEN WalkGTs ELSE FrequencyGTs),
            h \in WalkHits(c)}
         \cup {NonSnv(pos, IndelAlleles), NonSnv(pos, MultiAlleles)}
         \cup IF c.exclude_regions
              THEN {Variant(pos, SnvAlleles,
                            GT(<<0, 1>>, <<0, 1>>, <<1, 1>>, <<0, 0>>, <<0, 1>>),
                            {}, TRUE, <<Dots, Dots>>)}
              ELSE {}

\* no record: the value of var, index_var before they are bound, and
\* search_var finding nothing
NoVariant ==
    Variant(0, <<>>, GT(<<None, None>>, <<None, None>>, <<None, None>>,
                        <<None, None>>, <<None, None>>),
            {}, FALSE, <<Dots, Dots>>)

\* var.DECOMPOSED_ALLELES[i] matches pos, ref and alt for some i
Decomposes(v, pos, ref, alt) ==
    /\ v.POS = pos
    /\ Len(v.ALLELES) >= 2
    /\ v.ALLELES[1] = ref
    /\ \E i \in 2..Len(v.ALLELES) : v.ALLELES[i] = alt

\* what search_var can find: a matching record of the VCF, or NoVariant
\* when it raises
search_var(c) ==
    {v \in RecordsAt(c, c.variant.pos) :
        ~v.in_bed /\ Decomposes(v, c.variant.pos, c.variant.ref, c.variant.alt)}
    \cup {NoVariant}

----------------------------------------------------------------------------
(* vcf_to_hap and parse_region *)

\* unrelateds after "for s in vreader.header.samples", restricted to
\* header samples 1..i, given the families of the samples of interest
RECURSIVE Unrelateds(_, _)
Unrelateds(samples, i) ==
    IF i = 0 THEN [list |-> <<>>,
                   families |-> {Individuals[samples[k]].fid :
                                    k \in 1..Len(samples)}]
    ELSE LET prev == Unrelateds(samples, i - 1)
             s == VcfSamples[i]
         IN  IF s \notin DOMAIN Individuals
             THEN [list |-> Append(prev.list, s), families |-> prev.families]
             ELSE IF Individuals[s].fid \notin prev.families
             THEN [list |-> Append(prev.list, s),
                   families |-> prev.families \cup {Individuals[s].fid}]
             ELSE prev

\* the header line's tab-separated fields
HeaderFields(c) ==
    8 + (IF c.output_alleles THEN 2 * Len(c.samples) ELSE Len(c.samples)) + 2
    + (IF c.gnomad_readers # <<>> THEN 3 ELSE 0)

\* the row without its last k items (row.pop() k times)
Popped(r, k) == SubSeq(r, 1, Len(r) - k)

\* index_row[2] += "|INDEX"
IndexId(r) == [r EXCEPT ![3] = r[3] \o "|INDEX"]

\* autosome_re matches the chromosome
Autosomal(chrom) == chrom \in {"1", "chr1"}

\* the error of "for s in samples" (lines 380-387), "" when every sample is
\* in the VCF and in the pedigree
RECURSIVE SampleError(_, _)
SampleError(samples, i) ==
    IF i > Len(samples) THEN ""
    ELSE IF ~In(samples[i], VcfSamples) THEN "RuntimeError: sample not in VCF"
    ELSE IF samples[i] \notin DOMAIN Individuals
    THEN "RuntimeError: sample not in PED"
    ELSE SampleError(samples, i + 1)

\* parse_var_string's error, "" when it returns the groups
parse_var_string(variant) ==
    IF ~variant.matches THEN "RuntimeError: could not parse variant"
    ELSE IF ~Autosomal(variant.chrom) THEN "RuntimeError: not autosomal"
    ELSE ""

\* the first error vcf_to_hap raises before it searches the index variant
ArgumentError(c) ==
    IF parse_var_string(c.variant) # "" THEN parse_var_string(c.variant)
    ELSE SampleError(c.samples, 1)

\* RegionStart with the right flank starting at v_pos: C5 fails on it
RegionStartInclusive(c, at) ==
    IF at = "left"
    THEN (IF c.flanks < c.variant.pos THEN c.variant.pos - c.flanks ELSE 1)
    ELSE c.variant.pos

\* the region parse_region walks from pc: [start, end]
RegionStart(c, at) ==
    IF at = "left"
    THEN (IF c.flanks < c.variant.pos THEN c.variant.pos - c.flanks ELSE 1)
    ELSE c.variant.pos + 1

RegionEnd(c, at) ==
    IF at = "left" THEN c.variant.pos - 1 ELSE c.variant.pos + c.flanks

\* the records vcf.set_region(chrom, start - 1, end) makes the parser yield
RegionRecords(c, at) ==
    UNION {RecordsAt(c, p) : p \in RegionStart(c, at)..RegionEnd(c, at)}

\* the lines vcf_to_hap writes before the walk: the invocation comment and
\* the header
HeaderLines(c) ==
    <<Line("comment", 1, 0, "", "", 0),
      Line("header", HeaderFields(c), 0, "ID", "", 0)>>

\* IndexError without the test of len(index_var.ALLELES): C11 fails on it
IndexErrorUnchecked(iv, res) ==
    IF iv = NoVariant THEN "RuntimeError: could not find matching variant"
    ELSE IF res.ret = NoneRow THEN "TypeError: NoneType is not subscriptable"
    ELSE ""

\* the exception lines 396-404 raise for the record search_var found and
\* the engine's answer, "" when there is none
IndexError(iv, res) ==
    IF iv = NoVariant THEN "RuntimeError: could not find matching variant"
    ELSE IF Len(iv.ALLELES) # 2 THEN "RuntimeError: index variant not biallelic"
    ELSE IF res.ret = NoneRow THEN "TypeError: NoneType is not subscriptable"
    ELSE ""

\* the index call of parse_haplotypes (line 401: output_alleles is not
\* passed on)
IndexCall(c, iv, rev) ==
    parse_haplotypes(iv, c.samples, Unrelateds(c.samples, Len(VcfSamples)).list,
                     rev, FALSE, TRUE)

\* what lines 396-417 leave behind for the record search_var found
Bootstrapped(c, iv, rev, e0) ==
    LET res == IndexCall(c, iv, rev)
        called == iv # NoVariant /\ Len(iv.ALLELES) = 2
        failure == IndexError(iv, res)
    IN  [err |-> failure,
         eng |-> IF called THEN res ELSE e0,
         rev |-> IF called THEN res.rev ELSE rev,
         index_row |-> IF failure # "" THEN NoneRow
                       ELSE Popped(IndexId(res.ret), 3),
         lines |-> IF failure # "" THEN <<>> ELSE HeaderLines(c)]

\* lines 366-417: everything up to the header
Bootstrap ==
    /\ pc = "start"
    /\ IF ArgumentError(cfg) # ""
       THEN /\ pc' = "error"
            /\ err' = ArgumentError(cfg)
            /\ UNCHANGED <<index_var, index_row, eng, reverse_allele_order, out>>
       ELSE \E iv \in search_var(cfg) :
            \E b \in {Bootstrapped(cfg, iv, reverse_allele_order, eng)} :
                /\ index_var' = iv
                /\ eng' = b.eng
                /\ reverse_allele_order' = b.rev
                /\ err' = b.err
                /\ pc' = IF b.err # "" THEN "error" ELSE "left"
                /\ index_row' = b.index_row
                /\ out' = out \o b.lines
    /\ UNCHANGED <<cfg, var, row, n, w, last>>

\* the flank call of parse_haplotypes (line 461)
FlankCall(c, v, rev) ==
    parse_haplotypes(v, c.samples, Unrelateds(c.samples, Len(VcfSamples)).list,
                     rev, c.output_alleles, FALSE)

\* whether lines 472-491 hand the row to output_row
PolicyAccepts(c, all_phased, informative) ==
    IF c.phased_in_all THEN all_phased
    ELSE IF c.informative_only THEN informative
    ELSE TRUE

\* TooManyNoCalls testing max_no_calls for truth, not against None: C8
\* fails on it
TooManyNoCallsTruthy(c, no_calls) ==
    c.max_no_calls # None /\ c.max_no_calls # 0 /\ no_calls > c.max_no_calls

\* max_no_calls is not None and no_calls > max_no_calls
TooManyNoCalls(c, no_calls) ==
    c.max_no_calls # None /\ no_calls > c.max_no_calls

\* what one iteration leaves behind
Iteration(fate, r, e, rev, lines, wrote) ==
    [last |-> fate, row |-> r, eng |-> e, rev |-> rev, lines |-> lines,
     wrote |-> wrote]

\* lines 463-491: a returned row is popped, checked against max_no_calls
\* and the output policy, and handed to output_row
RowFate(c, v, res, at, k) ==
    LET r == Popped(res.ret, 3)
        no_calls == res.ret[Len(res.ret)]
        all_phased == res.ret[Len(res.ret) - 1]
        informative == res.ret[Len(res.ret) - 2]
    IN  IF TooManyNoCalls(c, no_calls)
        THEN Iteration("too many no-calls", r, res, res.rev, <<>>, 0)
        ELSE IF ~PolicyAccepts(c, all_phased, informative)
        THEN Iteration(IF c.phased_in_all THEN "not all phased"
                       ELSE "not informative", r, res, res.rev, <<>>, 0)
        ELSE LET o == output_row(r, v, c.gnomad_readers,
                                 c.min_other_allele_freq, c.samples, at, k)
             IN  Iteration(IF o.ret = 1 THEN "written" ELSE "suppressed",
                           o.row, res, res.rev, o.lines, o.ret)

\* the body of "for var in vcf.parser" (lines 452-491) for record v, from
\* the caller's row r0 and the engine's last call e0
parse_region(c, v, rev, at, k, r0, e0) ==
    IF c.exclude_regions /\ v.in_bed
    THEN Iteration("excluded", r0, e0, rev, <<>>, 0)
    ELSE LET res == FlankCall(c, v, rev)
         IN  IF res.ret = NoneRow
             THEN Iteration("rejected", NoneRow, res, res.rev, <<>>, 0)
             ELSE RowFate(c, v, res, at, k)

\* one iteration of "for var in vcf.parser" (lines 451-492) on the next
\* record of a position-sorted region
ParseRegionStep ==
    /\ pc \in {"left", "right"}
    /\ n < MaxFlankVars
    /\ \E v \in RegionRecords(cfg, pc) :
          /\ n > 0 => v.POS >= var.POS
          /\ var' = v
          /\ \E it \in {parse_region(cfg, v, reverse_allele_order, pc, n,
                                     row, eng)} :
                /\ last' = it.last
                /\ row' = it.row
                /\ eng' = it.eng
                /\ reverse_allele_order' = it.rev
                /\ out' = out \o it.lines
                /\ w' = w + it.wrote
    /\ n' = n + 1
    /\ UNCHANGED <<pc, cfg, index_var, index_row, err>>

\* lines 427-430: the left walk has returned (its locals are gone), the
\* index row is written and the right walk begins
WriteIndexRow ==
    /\ pc = "left"
    /\ \E o \in {output_row(index_row, index_var, cfg.gnomad_readers, None,
                            <<>>, "index", 0)} :
           /\ index_row' = o.row
           /\ out' = out \o o.lines
    /\ pc' = "right"
    /\ var' = NoVariant
    /\ row' = NoneRow
    /\ eng' = NoEngineCall
    /\ n' = 0
    /\ w' = 0
    /\ last' = "index row"
    /\ UNCHANGED <<cfg, index_var, reverse_allele_order, err>>

\* lines 438-439: the right walk has returned and vcf_to_hap returns; what
\* remains is the output
Finish ==
    /\ pc = "right"
    /\ pc' = "done"
    /\ var' = NoVariant
    /\ index_var' = NoVariant
    /\ index_row' = NoneRow
    /\ row' = NoneRow
    /\ eng' = NoEngineCall
    /\ reverse_allele_order' = EmptyDict
    /\ n' = 0
    /\ w' = 0
    /\ last' = "returned"
    /\ UNCHANGED <<cfg, out, err>>

----------------------------------------------------------------------------
(* Specifications *)

SampleLists == {<<"child">>, <<"child", "sib">>}

TheVariant == [matches |-> TRUE, chrom |-> "1", pos |-> IndexPos, ref |-> "A", alt |-> "G"]

\* arguments: the samples and one group of options at a time (the output
\* policy with max_no_calls, output_alleles, the frequency databases with
\* min_other_allele_freq and output_alleles, the exclusion BED), the others
\* at their defaults
PolicyConfigs ==
    {Args(s, TheVariant, Flanks, FALSE, i, p, m, <<>>, None, FALSE) :
        s \in SampleLists, i \in BOOLEAN, p \in BOOLEAN, m \in {None, 0}}

AllelesConfigs ==
    {Args(s, TheVariant, Flanks, TRUE, FALSE, FALSE, None, <<>>, None, FALSE) :
        s \in SampleLists}

\* with min_other_allele_freq one column per sample, without it two
FrequencyConfigs ==
    {Args(<<"child", "sib">>, TheVariant, Flanks, a, FALSE, FALSE, None, r,
          IF a THEN None ELSE f, FALSE) :
        a \in BOOLEAN, r \in {<<1>>, <<1, 2>>}, f \in MinAfs}

ExcludeConfigs ==
    {Args(s, TheVariant, Flanks, FALSE, FALSE, FALSE, None, <<>>, None, TRUE) :
        s \in SampleLists}

\* arguments that make vcf_to_hap raise before it searches the index variant
\* or make the search match an indel
FailingConfigs ==
    {Args(s, v, Flanks, FALSE, FALSE, FALSE, None, <<>>, None, FALSE) :
        s \in SampleLists, v \in VariantSpecs \ {TheVariant}}
    \cup {Args(s, TheVariant, Flanks, FALSE, FALSE, FALSE, None, <<>>, None, FALSE) :
            s \in {<<"stranger">>, <<"child", "other">>, <<"other", "stranger">>}}

Configs == PolicyConfigs \cup AllelesConfigs \cup FrequencyConfigs
           \cup ExcludeConfigs \cup FailingConfigs

Init ==
    /\ pc = "start"
    /\ cfg \in Configs
    /\ var = NoVariant
    /\ index_var = NoVariant
    /\ index_row = NoneRow
    /\ row = NoneRow
    /\ eng = NoEngineCall
    /\ reverse_allele_order = EmptyDict
    /\ out = <<>>
    /\ n = 0
    /\ w = 0
    /\ last = ""
    /\ err = ""

Next == Bootstrap \/ ParseRegionStep \/ WriteIndexRow \/ Finish

Spec == Init /\ [][Next]_vars

\* every defaultdict(bool) over the samples
Dicts(samples) ==
    UNION {[ks -> BOOLEAN] : ks \in SUBSET {samples[i] : i \in 1..Len(samples)}}

\* one call from an arbitrary state of the flags: the index call of
\* parse_haplotypes as line 401 makes it (fresh flags, one column per
\* sample), or one iteration of parse_region's loop on a record
EngineInit ==
    /\ pc \in {"index call", "flank call"}
    /\ cfg \in {Args(s, TheVariant, Flanks, a, FALSE, FALSE, None, <<>>, None,
                      FALSE) : s \in SampleLists, a \in BOOLEAN}
    /\ pc = "index call" => ~cfg.output_alleles
    /\ var \in Variants
    /\ reverse_allele_order \in Dicts(cfg.samples)
    /\ pc = "index call" => reverse_allele_order = EmptyDict
    /\ index_var = NoVariant
    /\ index_row = NoneRow
    /\ row = NoneRow
    /\ eng = NoEngineCall
    /\ out = <<>>
    /\ n = 0
    /\ w = 0
    /\ last = ""
    /\ err = ""

\* line 401 alone
EngineIndexCall ==
    /\ pc = "index call"
    /\ \E res \in {IndexCall(cfg, var, reverse_allele_order)} :
           /\ eng' = res
           /\ index_row' = res.ret
           /\ reverse_allele_order' = res.rev
    /\ pc' = "index returned"
    /\ UNCHANGED <<cfg, var, index_var, row, out, n, w, last, err>>

\* lines 452-492 for one record
EngineFlankCall ==
    /\ pc = "flank call"
    /\ \E it \in {parse_region(cfg, var, reverse_allele_order, "left", n,
                               row, eng)} :
           /\ last' = it.last
           /\ row' = it.row
           /\ eng' = it.eng
           /\ reverse_allele_order' = it.rev
           /\ out' = out \o it.lines
           /\ w' = w + it.wrote
    /\ n' = n + 1
    /\ pc' = "flank returned"
    /\ UNCHANGED <<cfg, var, index_var, index_row, err>>

EngineNext == EngineIndexCall \/ EngineFlankCall

EngineSpec == EngineInit /\ [][EngineNext]_vars

----------------------------------------------------------------------------
(* Properties *)

\* s is recorded in sample_no_calls at v (lines 171-182)
IsNoCall(v, s) ==
    ~gt_is_ok(v, s, 0) \/ ~gt_is_ok(v, s, 1) \/ v.GT[s] = <<None, None>>

\* len(sample_no_calls) at v
NoCallCount(v, samples) ==
    Cardinality({i \in 1..Len(samples) : IsNoCall(v, samples[i])})

\* pat and mat of sample s at v
PatAt(v, s) ==
    PatOf(ParentGT(v, Individuals[s].father), ParentGT(v, Individuals[s].mother))

MatAt(v, s) ==
    MatOf(ParentGT(v, Individuals[s].father), ParentGT(v, Individuals[s].mother))

\* the row's columns of the i-th sample hold the pair al
ColumnsHold(r, i, al, text, output_alleles) ==
    /\ r # NoneRow
    /\ IF output_alleles
       THEN r[8 + 2 * i - 1] = al[1] /\ r[8 + 2 * i] = al[2]
       ELSE r[8 + i] = text

\* the indices of the data rows of the output
Rows == {i \in 1..Len(out) : out[i].kind = "row"}

\* a flank iteration has just called parse_haplotypes on var
AfterFlankCall ==
    /\ pc \in {"left", "right"}
    /\ eng.called
    /\ ~eng.index_var
    /\ last \notin {"", "index row", "excluded"}

\* parse_haplotypes has returned from a call on var
AfterEngineCall == pc \in {"index returned", "flank returned"}

\* every sample the flank call phased with p # m is reported (m, p) with
\* in-phase allele m under a true flag, (p, m) with in-phase allele p under
\* a false one, in the outcome and in the row
PhasedAsFlagged ==
    AfterFlankCall =>
        \A i \in 1..Len(eng.outcome) :
            LET o == eng.outcome[i]
                s == cfg.samples[i]
                p == PatAt(var, s)
                m == MatAt(var, s)
                first == IF FlagOf(reverse_allele_order, s) THEN m ELSE p
                second == IF FlagOf(reverse_allele_order, s) THEN p ELSE m
            IN  (var.GT[s] = <<0, 1>> /\ ~IsNoCall(var, s)
                 /\ p # None /\ m # None /\ p # m) =>
                    /\ o.alleles = <<var.ALLELES[first + 1], var.ALLELES[second + 1]>>
                    /\ o.call = var.ALLELES[first + 1] \o "|" \o var.ALLELES[second + 1]
                    /\ o.in_phase = first
                    /\ ColumnsHold(eng.ret, i, o.alleles, o.call,
                                   cfg.output_alleles)

\* C1: once the index call has returned, no step of the left or right walk
\* changes the value of any sample's orientation flag, and every flanking
\* variant at which a heterozygous sample is phased with paternal allele p
\* and maternal allele m (p # m) reports (m, p) with in-phase allele m when
\* the sample's flag is true and (p, m) with in-phase allele p when it is
\* false.
C1_OrientationStable ==
    /\ [][(pc \in {"left", "right"} /\ pc' \in {"left", "right"}) =>
             \A s \in Persons : FlagOf(reverse_allele_order', s)
                                 = FlagOf(reverse_allele_order, s)]_vars
    /\ []PhasedAsFlagged

\* a flank call phased a sample whose flag is true at a variant where the
\* father transmitted the alternate allele: it is reported maternal-first
C1_Witness ==
    /\ AfterFlankCall
    /\ \E i \in 1..Len(eng.outcome) :
          /\ eng.outcome[i].kind = "phased"
          /\ FlagOf(reverse_allele_order, cfg.samples[i])
          /\ PatAt(var, cfg.samples[i]) = 1
          /\ MatAt(var, cfg.samples[i]) = 0
          /\ eng.outcome[i].call = "A|G"
          /\ eng.outcome[i].in_phase = 0

\* C2: every heterozygous, admissible sample of interest whose paternal and
\* maternal alleles are both determined and equal is reported with the
\* slash-joined genotype in both allele slots, is not in the phased set
\* (no in-phase allele, the all-phased flag is false, N_IN_PHASE counts
\* other samples only) and gets exactly one warning.
C2_DeNovo ==
    (AfterEngineCall /\ Len(eng.outcome) = Len(cfg.samples)) =>
        \A i \in 1..Len(cfg.samples) :
            LET s == cfg.samples[i]
                o == eng.outcome[i]
                c == REF(var) \o "/" \o ALT(var)
            IN  (var.GT[s] = <<0, 1>> /\ ~IsNoCall(var, s)
                 /\ PatAt(var, s) # None /\ PatAt(var, s) = MatAt(var, s)) =>
                    /\ o.call = c
                    /\ o.alleles = <<c, c>>
                    /\ o.in_phase = None
                    /\ ColumnsHold(eng.ret, i, <<c, c>>, c,
                                   pc = "flank returned" /\ cfg.output_alleles)
                    /\ eng.ret[Len(eng.ret) - 1] = FALSE
                    /\ eng.ret[Len(eng.ret) - 2]
                       = (\E j \in 1..Len(cfg.samples) :
                             j # i /\ eng.outcome[j].in_phase # None)
                    /\ eng.ret[7] <= Len(cfg.samples) - 1
                    /\ Cardinality({k \in 1..Len(eng.warnings) :
                                        eng.warnings[k] = s}) = 1

\* a heterozygous child of two parents homozygous for the alternate allele
\* was reported unphased, with a warning
C2_Witness ==
    /\ AfterEngineCall
    /\ cfg.samples = <<"child", "sib">>
    /\ var.ALLELES = SnvAlleles
    /\ var.bad = {}
    /\ var.GT["child"] = <<0, 1>>
    /\ var.GT["father"] = <<1, 1>>
    /\ var.GT["mother"] = <<1, 1>>
    /\ eng.outcome[1].kind = "denovo"
    /\ eng.outcome[1].call = "A/G"
    /\ In("child", eng.warnings)

\* the scenario: the single sample child, heterozygous at the index variant
\* A/G, father A/G, mother A/A
Scenario ==
    /\ pc \in {"left", "right"}
    /\ cfg.samples = <<"child">>
    /\ ~cfg.output_alleles
    /\ index_var.ALLELES = SnvAlleles
    /\ index_var.GT["child"] = <<0, 1>>
    /\ index_var.GT["father"] = <<0, 1>>
    /\ index_var.GT["mother"] = <<0, 0>>

\* the index call phased child paternal G, maternal A and left its flag
\* false
ScenarioIndexPhased ==
    /\ ~FlagOf(reverse_allele_order, "child")
    /\ index_row[9] = "G|A"
    /\ (pc = "left" /\ n = 0) =>
          /\ eng.index_var
          /\ eng.outcome[1].kind = "phased"
          /\ eng.outcome[1].pat = 1
          /\ eng.outcome[1].mat = 0
          /\ eng.outcome[1].in_phase = 1

\* the flank call was made on a biallelic SNV at which child is homozygous
\* for allele a
ScenarioFlankHom(a) ==
    /\ AfterFlankCall
    /\ var.ALLELES = SnvAlleles
    /\ var.GT["child"] = <<a, a>>

\* C3 as stated: in the scenario the index call phases child paternal G,
\* maternal A with a false flag, and a flanking SNV at which child is
\* homozygous A/A yields a row with child column A|A, HAP A and
\* N_IN_PHASE 1.
C3_AsStated ==
    Scenario =>
        /\ ScenarioIndexPhased
        /\ ScenarioFlankHom(0) =>
              /\ eng.ret # NoneRow
              /\ eng.ret[9] = "A|A"
              /\ eng.ret[6] = "A"
              /\ eng.ret[7] = 1

\* C3: in the scenario the index call phases child paternal G, maternal A
\* with a false flag; a flanking SNV at which child is homozygous A/A
\* yields no row (the engine returns None and nothing is written for it),
\* and a flanking SNV at which child is homozygous G/G yields a row with
\* child column G|G, HAP G and N_IN_PHASE 1.
C3_RoundTrip ==
    Scenario =>
        /\ ScenarioIndexPhased
        /\ ScenarioFlankHom(0) =>
              /\ eng.ret = NoneRow
              /\ last = "rejected"
              /\ ~\E i \in Rows : out[i].flank = pc /\ out[i].n = n - 1
        /\ ScenarioFlankHom(1) =>
              /\ eng.ret # NoneRow
              /\ eng.ret[9] = "G|G"
              /\ eng.ret[6] = "G"
              /\ eng.ret[7] = 1

\* in the scenario a flanking SNV with child homozygous A/A was rejected
C3_Witness ==
    /\ Scenario
    /\ ScenarioFlankHom(0)
    /\ last = "rejected"
    /\ eng.ret = NoneRow

\* C4: every data row written has exactly as many fields as the header
\* line (the second line written).
C4_FieldCount ==
    \A i \in Rows : out[i].nfields = out[2].nfields

\* C5: the index row is written exactly once, after every row of the left
\* flank and before every row of the right flank, whatever the options;
\* left rows lie in [pos - flanks, pos - 1] and right rows in
\* [pos + 1, pos + flanks]; within a flank rows are written in the order
\* the records were yielded, and POS never decreases down the output.
C5_OutputOrder ==
    /\ \A i \in Rows : \A j \in Rows :
          i < j =>
             /\ out[i].flank # out[j].flank =>
                   /\ out[i].flank \in {"left", "index"}
                   /\ out[j].flank \in {"index", "right"}
             /\ out[i].flank = out[j].flank => out[i].n < out[j].n
             /\ out[i].POS <= out[j].POS
    /\ \A i \in Rows :
          /\ out[i].flank = "left" =>
                /\ out[i].POS >= cfg.variant.pos - cfg.flanks
                /\ out[i].POS <= cfg.variant.pos - 1
          /\ out[i].flank = "right" =>
                /\ out[i].POS >= cfg.variant.pos + 1
                /\ out[i].POS <= cfg.variant.pos + cfg.flanks
          /\ out[i].flank = "index" =>
                /\ out[i].POS = cfg.variant.pos
                /\ out[i].ID = "rs|INDEX"
    /\ Cardinality({i \in Rows : out[i].flank = "index"})
       = IF pc \in {"right", "done"} THEN 1 ELSE 0

\* a completed run wrote two rows of the left flank, the index row and two
\* rows of the right flank
C5_Witness ==
    /\ pc = "done"
    /\ Cardinality({i \in Rows : out[i].flank = "left"}) = 2
    /\ Cardinality({i \in Rows : out[i].flank = "index"}) = 1
    /\ Cardinality({i \in Rows : out[i].flank = "right"}) = 2

\* C6: in every returned row N_COMPAT >= N_IN_PHASE, and when a dominant
\* phase allele exists N_COMPAT is N_IN_PHASE plus one for every no-call
\* sample plus one for every called, unphased sample whose genotype holds
\* the dominant allele.
C6_Compat ==
    (AfterEngineCall /\ eng.ret # NoneRow) =>
        /\ eng.ret[8] >= eng.ret[7]
        /\ eng.p_allele # None =>
              eng.ret[8] = eng.ret[7] + NoCallCount(var, cfg.samples)
                  + Cardinality({i \in 1..Len(cfg.samples) :
                        /\ ~IsNoCall(var, cfg.samples[i])
                        /\ eng.outcome[i].in_phase = None
                        /\ In(eng.p_allele, var.GT[cfg.samples[i]])})

\* a row was returned for a phased child and a no-call sib: the sib added
\* one to N_COMPAT
C6_Witness ==
    /\ AfterEngineCall
    /\ cfg.samples = <<"child", "sib">>
    /\ eng.ret # NoneRow
    /\ eng.p_allele # None
    /\ IsNoCall(var, "sib")
    /\ eng.ret[7] = 1
    /\ eng.ret[8] = 2

\* C7: a flanking row handed to output_row with frequency databases is
\* suppressed exactly when a threshold is configured, N_COMPAT equals the
\* number of samples, and either a looked-up frequency puts the other
\* allele below the threshold or HAP is the reference allele and no
\* database holds the variant; otherwise it is written.
C7_FrequencyFilter ==
    (pc \in {"left", "right"} /\ last \in {"written", "suppressed"}
     /\ cfg.gnomad_readers # <<>>) =>
        LET afs == {var.gnomad[cfg.gnomad_readers[k]][1] :
                        k \in 1..Len(cfg.gnomad_readers)} \ {"."}
            hap_ref == eng.ret[6] = REF(var)
            below == \E a \in afs :
                        (IF hap_ref THEN Float(a) ELSE 1000 - Float(a))
                        < cfg.min_other_allele_freq
        IN  (last = "suppressed") <=>
                /\ cfg.min_other_allele_freq # None
                /\ eng.ret[8] = Len(cfg.samples)
                /\ below \/ (hap_ref /\ afs = {})

\* C8: with max_no_calls configured, a flanking variant with more no-call
\* samples than max_no_calls is never handed to output_row and never
\* written, whatever the output policy.
C8_NoCallCeiling ==
    (AfterFlankCall /\ cfg.max_no_calls # None
     /\ Len(var.ALLELES) = 2
     /\ NoCallCount(var, cfg.samples) > cfg.max_no_calls) =>
        /\ last \in {"rejected", "too many no-calls"}
        /\ ~\E i \in Rows : out[i].flank = pc /\ out[i].n = n - 1

\* with max_no_calls = 0 a returned row with a no-call sample was dropped
C8_Witness ==
    /\ AfterFlankCall
    /\ cfg.max_no_calls = 0
    /\ eng.ret # NoneRow
    /\ NoCallCount(var, cfg.samples) = 1
    /\ last = "too many no-calls"

\* v has not two alleles, or alleles of different lengths, or no admissible
\* sample of interest carrying the alternate allele
Rejectable(v, samples) ==
    \/ Len(v.ALLELES) # 2
    \/ Len(v.ALLELES[1]) # Len(v.ALLELES[2])
    \/ \A i \in 1..Len(samples) :
          IsNoCall(v, samples[i]) \/ ~In(1, v.GT[samples[i]])

\* C9: for a variant that has not exactly two alleles, whose alleles differ
\* in length, or at which no admissible sample of interest carries the
\* alternate allele, parse_haplotypes returns None and leaves the flags as
\* they were (no value changed, no key added), and the flank iteration
\* writes nothing.
C9_Rejection ==
    [][(pc \in {"index call", "flank call"}
        /\ Rejectable(var, cfg.samples)) =>
          /\ eng'.called
          /\ eng'.ret = NoneRow
          /\ reverse_allele_order' = reverse_allele_order
          /\ out' = out
          /\ w' = w]_vars

\* a flank iteration rejected an SNV whose only carrier fails the genotype
\* filter, with the flags holding an entry
C9_Witness ==
    /\ pc = "flank returned"
    /\ cfg.samples = <<"child">>
    /\ var.ALLELES = SnvAlleles
    /\ var.GT["child"] = <<0, 1>>
    /\ <<"child", 1>> \in var.bad
    /\ reverse_allele_order = SetKey(EmptyDict, "child", TRUE)
    /\ eng.called
    /\ eng.ret = NoneRow
    /\ last = "rejected"
    /\ out = <<>>

\* C10: vcf_to_hap ends with an error only for the configuration and
\* lookup errors; no variant handed to the engine, the index variant
\* included, makes the run end with another error.
C10_NeverAborts ==
    pc = "error" =>
        err \in {"RuntimeError: could not parse variant",
                 "RuntimeError: not autosomal",
                 "RuntimeError: sample not in VCF",
                 "RuntimeError: sample not in PED",
                 "RuntimeError: could not find matching variant",
                 "RuntimeError: index variant not biallelic"}

\* the variant argument is malformed or not autosomal, or a sample of
\* interest is missing from the VCF or from the pedigree
BadArguments ==
    \/ ~cfg.variant.matches
    \/ cfg.variant.chrom \notin {"1", "chr1"}
    \/ \E i \in 1..Len(cfg.samples) :
          \/ cfg.samples[i] \notin {VcfSamples[k] : k \in 1..Len(VcfSamples)}
          \/ cfg.samples[i] \notin DOMAIN Individuals

\* C11: when the variant argument is malformed or not autosomal, a sample
\* of interest is missing from the VCF or the pedigree, the index variant
\* is not found or is not biallelic, vcf_to_hap has raised a RuntimeError
\* once lines 366-400 are past, and no line has been written.
C11_FatalBeforeOutput ==
    (pc \in {"error", "left", "right"}
     /\ (BadArguments \/ index_var = NoVariant
         \/ Len(index_var.ALLELES) # 2)) =>
        /\ pc = "error"
        /\ err \in {"RuntimeError: could not parse variant",
                    "RuntimeError: not autosomal",
                    "RuntimeError: sample not in VCF",
                    "RuntimeError: sample not in PED",
                    "RuntimeError: could not find matching variant",
                    "RuntimeError: index variant not biallelic"}
        /\ out = <<>>

\* the run ended on a multiallelic index variant with nothing written
C11_Witness ==
    /\ pc = "error"
    /\ ~BadArguments
    /\ index_var.ALLELES = MultiAlleles
    /\ err = "RuntimeError: index variant not biallelic"
    /\ out = <<>>

\* the rule as stated: a usable parent transmits the alternate allele when
\* it is homozygous for it, or heterozygous while the other parent is
\* usable and homozygous reference, and the reference allele otherwise
StatedRule(own, other) ==
    IF own = <<>> THEN None
    ELSE IF own = <<1, 1>> THEN 1
    ELSE IF own = <<0, 1>> /\ other = <<0, 0>> THEN 1
    ELSE 0

\* the rule of lines 208-219: a heterozygous parent transmits the
\* alternate allele when the other parent is usable and homozygous
\* reference, and is left undetermined otherwise
CodedRule(own, other) ==
    IF own = <<>> THEN None
    ELSE IF own = <<1, 1>> THEN 1
    ELSE IF own = <<0, 0>> THEN 0
    ELSE IF other = <<0, 0>> THEN 1
    ELSE None

\* what sample i's outcome must be when the two sides are first derived
\* as p0 and m0: unphased when both are undetermined, else the pair after
\* the complement step, de novo when its sides are equal
OutcomeFollows(o, p0, m0) ==
    LET p == IF p0 = None /\ m0 # None THEN 1 - m0 ELSE p0
        m == IF m0 = None /\ p0 # None THEN 1 - p0 ELSE m0
    IN  IF p0 = None /\ m0 = None
        THEN o.kind = "unphased" /\ o.pat = None /\ o.mat = None
        ELSE /\ o.pat = p
             /\ o.mat = m
             /\ o.kind = IF p = m THEN "denovo" ELSE "phased"

\* sample i is heterozygous and admissible and has a usable parent
Phasable(i) ==
    LET s == cfg.samples[i]
    IN  /\ var.GT[s] = <<0, 1>>
        /\ ~IsNoCall(var, s)
        /\ \/ ParentGT(var, Individuals[s].father) # <<>>
           \/ ParentGT(var, Individuals[s].mother) # <<>>

\* C12 as stated: for every heterozygous, admissible sample with a usable
\* parent, each side is the alternate allele when that parent's genotype
\* holds 1 and either holds no 0 or the other parent is usable and holds
\* no 1, the reference allele whenever that parent is usable and the
\* condition fails, undetermined only when that parent is unusable; one
\* determined side gives the other its complement.
C12_AsStated ==
    (AfterEngineCall /\ Len(eng.outcome) = Len(cfg.samples)) =>
        \A i \in 1..Len(cfg.samples) :
            LET fgt == ParentGT(var, Individuals[cfg.samples[i]].father)
                mgt == ParentGT(var, Individuals[cfg.samples[i]].mother)
            IN  Phasable(i) =>
                    OutcomeFollows(eng.outcome[i], StatedRule(fgt, mgt),
                                   StatedRule(mgt, fgt))

\* C12: for every heterozygous, admissible sample with a usable parent,
\* each side is the alternate allele when that parent's genotype holds 1
\* and either holds no 0 or the other parent is usable and holds no 1, the
\* reference allele when that parent is usable and its genotype holds no
\* 1, and undetermined when that parent is unusable or is heterozygous
\* while the other parent is unusable or holds 1; one determined side
\* gives the other its complement.
C12_Transmitted ==
    (AfterEngineCall /\ Len(eng.outcome) = Len(cfg.samples)) =>
        \A i \in 1..Len(cfg.samples) :
            LET fgt == ParentGT(var, Individuals[cfg.samples[i]].father)
                mgt == ParentGT(var, Individuals[cfg.samples[i]].mother)
            IN  Phasable(i) =>
                    OutcomeFollows(eng.outcome[i], CodedRule(fgt, mgt),
                                   CodedRule(mgt, fgt))

\* a heterozygous child of two usable heterozygous parents was left
\* unphased, without a warning
C12_Witness ==
    /\ AfterEngineCall
    /\ cfg.samples = <<"child">>
    /\ var.ALLELES = SnvAlleles
    /\ var.bad = {}
    /\ var.GT["child"] = <<0, 1>>
    /\ var.GT["father"] = <<0, 1>>
    /\ var.GT["mother"] = <<0, 1>>
    /\ eng.outcome[1].kind = "unphased"
    /\ eng.outcome[1].pat = None
    /\ eng.warnings = <<>>

\* the samples of the last call that have an in-phase allele
PhasedSamples == {i \in 1..Len(eng.outcome) : eng.outcome[i].in_phase # None}

\* the allele that is in phase in strictly more phased samples than the
\* other, None on a tie or without phased samples
StrictMajority ==
    LET ref == Cardinality({i \in PhasedSamples : eng.outcome[i].in_phase = 0})
        alt == Cardinality({i \in PhasedSamples : eng.outcome[i].in_phase = 1})
    IN  IF ref > alt THEN 0 ELSE IF alt > ref THEN 1 ELSE None

\* the dominant allele is the strict majority allele, and without one HAP
\* is '?' and N_COMPAT = N_IN_PHASE
TallyButCount ==
    (AfterEngineCall /\ eng.ret # NoneRow) =>
        /\ eng.p_allele = StrictMajority
        /\ StrictMajority = None =>
              /\ eng.ret[6] = "?"
              /\ eng.ret[8] = eng.ret[7]
        /\ StrictMajority # None => eng.ret[6] = var.ALLELES[StrictMajority + 1]

\* C13: in every returned row the dominant allele is the allele in phase
\* in strictly more phased samples than the other, undetermined on a tie
\* or without phased samples, and then HAP is '?'; N_IN_PHASE is the
\* number of phased samples whose in-phase allele is the dominant allele;
\* without a dominant allele N_COMPAT = N_IN_PHASE.
C13_PhaseTally ==
    /\ TallyButCount
    /\ (AfterEngineCall /\ eng.ret # NoneRow) =>
          eng.ret[7] = Cardinality({i \in PhasedSamples :
                           eng.outcome[i].in_phase = StrictMajority})

\* sample s is heterozygous and admissible at v and phased there with
\* paternal allele p and maternal allele m
PhasedWith(v, s, p, m) ==
    /\ v.GT[s] = <<0, 1>>
    /\ ~IsNoCall(v, s)
    /\ PatAt(v, s) = p
    /\ MatAt(v, s) = m

\* C14: after the index call a sample's orientation flag is true exactly
\* when the sample is heterozygous and phased with maternal allele
\* alternate and paternal allele reference, and false for every other
\* sample; every heterozygous sample phased at the index variant is
\* reported ALT|REF in the index row with the alternate allele in phase,
\* whichever parent transmitted it.
C14_IndexAnchoring ==
    pc = "index returned" =>
        /\ \A s \in Persons :
              FlagOf(reverse_allele_order, s)
              <=> /\ Len(var.ALLELES) = 2
                  /\ Len(REF(var)) = Len(ALT(var))
                  /\ \E i \in 1..Len(cfg.samples) :
                        cfg.samples[i] = s /\ PhasedWith(var, s, 0, 1)
        /\ \A i \in 1..Len(eng.outcome) :
              (PhasedWith(var, cfg.samples[i], 0, 1)
               \/ PhasedWith(var, cfg.samples[i], 1, 0)) =>
                  /\ eng.outcome[i].alleles = <<ALT(var), REF(var)>>
                  /\ eng.outcome[i].call = ALT(var) \o "|" \o REF(var)
                  /\ eng.outcome[i].in_phase = 1
                  /\ index_row # NoneRow
                  /\ index_row[8 + i] = ALT(var) \o "|" \o REF(var)

\* the index call phased child with the alternate allele from the mother:
\* the flag is true and child is reported G|A
C14_Witness ==
    /\ pc = "index returned"
    /\ cfg.samples = <<"child", "sib">>
    /\ var.ALLELES = SnvAlleles
    /\ PhasedWith(var, "child", 0, 1)
    /\ FlagOf(reverse_allele_order, "child")
    /\ ~FlagOf(reverse_allele_order, "sib")
    /\ eng.outcome[1].call = "G|A"
    /\ eng.outcome[1].in_phase = 1
    /\ index_row[9] = "G|A"

====
